---- MODULE Spec2Model ----
(***************************************************************************)
(* Model of pinn/data/matlab.py: class MatlabSample.                       *)
(*                                                                         *)
(* A sample object is the record `self` of its attributes.  An n-d array   *)
(* is a record [shape, val] whose val maps every index tuple (0-based, one *)
(* entry per axis) to its element.  A labelled array (xarray.DataArray)    *)
(* adds the axis names (dims) and the coordinates; the container           *)
(* (xarray.Dataset) holds named data variables and named coordinates.      *)
(* Complex numbers are pairs <<re, im>>; phases are counted in quarter     *)
(* turns (units of pi/2) so that exp(i*phase) is exact over the integers.  *)
(***************************************************************************)
EXTENDS Integers, Sequences, FiniteSets, TLC

VARIABLES self, last, stderr, loaded

vars == <<self, last, stderr, loaded>>

(***************************************************************************)
(* Bounds of the model.                                                    *)
(***************************************************************************)
\* the longest axis of an input array
MaxLen == 3
\* the largest number of elements of an input array of a .mat file
MaxElems == 6
\* the largest number of elements of an input array of a sample that is
\* enriched after loading
MaxLifeElems == 3

(***************************************************************************)
(* n-d arrays.                                                             *)
(***************************************************************************)
RECURSIVE Idx(_)
\* every index tuple of an array of the given shape
Idx(shape) ==
    IF shape = <<>> THEN {<<>>}
    ELSE {<<a>> \o r : a \in 0..(Head(shape) - 1), r \in Idx(Tail(shape))}

RECURSIVE Size(_)
Size(shape) == IF shape = <<>> THEN 1 ELSE Head(shape) * Size(Tail(shape))

RECURSIVE Lin(_, _)
\* position of index i in an array of the given shape, first axis fastest
\* (MATLAB's column-major element order)
Lin(shape, i) ==
    IF shape = <<>> THEN 0
    ELSE Head(i) + Head(shape) * Lin(Tail(shape), Tail(i))

Rev(s) == [k \in 1..Len(s) |-> s[Len(s) + 1 - k]]

\* the same data with its axes in the reverse order
ReverseAxes(a) ==
    [shape |-> Rev(a.shape),
     val   |-> [i \in Idx(Rev(a.shape)) |-> a.val[Rev(i)]]]

Max(a, b) == IF a >= b THEN a ELSE b

\* numpy broadcasting of two shapes (aligned at the last axis)
Pad(s, n) == [k \in 1..n |-> IF k <= n - Len(s) THEN 1 ELSE s[k - (n - Len(s))]]

Broadcastable(s1, s2) ==
    LET n == Max(Len(s1), Len(s2))
    IN  \A k \in 1..n :
            \/ Pad(s1, n)[k] = Pad(s2, n)[k]
            \/ Pad(s1, n)[k] = 1
            \/ Pad(s2, n)[k] = 1

BroadcastShape(s1, s2) ==
    LET n == Max(Len(s1), Len(s2))
    IN  [k \in 1..n |-> Max(Pad(s1, n)[k], Pad(s2, n)[k])]

\* the index of operand of shape s that result index i reads
Clip(s, i) ==
    LET n == Len(i)
    IN  [k \in 1..Len(s) |->
            IF s[k] = 1 THEN 0 ELSE i[k + (n - Len(s))]]

\* exp(1j * p), p in quarter turns
ExpI(p) ==
    LET q == p % 4
    IN  IF q = 0 THEN <<1, 0>>
        ELSE IF q = 1 THEN <<0, 1>>
        ELSE IF q = 2 THEN <<-1, 0>>
        ELSE <<0, -1>>

\* real m times complex c
Scale(m, c) == <<m * c[1], m * c[2]>>

\* np.multiply(m, np.exp(1j * p)) for arrays m, p with broadcastable shapes
PolarArr(m, p) ==
    LET s == BroadcastShape(m.shape, p.shape)
    IN  [shape |-> s,
         val   |-> [i \in Idx(s) |->
                       Scale(m.val[Clip(m.shape, i)],
                             ExpI(p.val[Clip(p.shape, i)]))]]

\* np.multiply(m, np.exp(1j * p))
Polar(m, p) ==
    IF Broadcastable(m.shape, p.shape)
    THEN [ok |-> TRUE, exc |-> "none", arr |-> PolarArr(m, p)]
    ELSE [ok |-> FALSE, exc |-> "ValueError"]

\* np.arange(n) * step
Arange(n, step) == [shape |-> <<n>>, val |-> [i \in Idx(<<n>>) |-> i[1] * step]]

\* a Python list or 1-d array given by its elements
ListArr(seq) == [shape |-> <<Len(seq)>>, val |-> [i \in Idx(<<Len(seq)>>) |-> seq[i[1] + 1]]]

(***************************************************************************)
(* Labelled arrays and the container (xarray).                             *)
(***************************************************************************)
Range(f) == {f[k] : k \in DOMAIN f}

\* position of name d in the sequence dims
Pos(dims, d) == CHOOSE k \in 1..Len(dims) : dims[k] = d

\* length of the axis named d
AxisLen(da, d) == da.shape[Pos(da.dims, d)]

\* a variable: an array with named axes
Variable(dims, a) == [dims |-> dims, shape |-> a.shape, val |-> a.val]

\* xr.DataArray(array, dims=dims, coords=coords); coords maps each of some
\* axis names to a 1-d array, which must be as long as the axis
DataArray(array, dims, coords) ==
    IF Len(dims) /= Len(array.shape)
    THEN [ok |-> FALSE, exc |-> "ValueError"]
    ELSE IF \E d \in DOMAIN coords :
                coords[d].shape /= <<array.shape[Pos(dims, d)]>>
    THEN [ok |-> FALSE, exc |-> "ValueError"]
    ELSE [ok |-> TRUE, exc |-> "none",
          da |-> [dims   |-> dims,
                  shape  |-> array.shape,
                  val    |-> array.val,
                  coords |-> [d \in DOMAIN coords |->
                                 Variable(<<d>>, coords[d])]]]

\* Transpose with the axes renamed but the data left where they are
TransposeRelabel(da, order) ==
    [dims |-> order, shape |-> da.shape, val |-> da.val, coords |-> da.coords]

\* array.transpose(*order)
Transpose(da, order) ==
    LET p     == [k \in 1..Len(order) |-> Pos(da.dims, order[k])]
        q     == [m \in 1..Len(da.dims) |-> Pos(order, da.dims[m])]
        shape == [k \in 1..Len(order) |-> da.shape[p[k]]]
    IN  [dims   |-> order,
         shape  |-> shape,
         val    |-> [j \in Idx(shape) |->
                        da.val[[m \in 1..Len(da.dims) |-> j[q[m]]]]],
         coords |-> da.coords]

\* array.mean(over): the reduced array that the enrichment calls hand to
\* as_xarray as `like`.  Only its axes, shape and coordinates are read
\* there, so its element values are not part of the model.  A coordinate
\* lying on a reduced axis is dropped.
SelectSeq2(s, keep) ==
    LET F[k \in 0..Len(s)] ==
            IF k = 0 THEN <<>>
            ELSE IF s[k] \in keep THEN Append(F[k - 1], s[k]) ELSE F[k - 1]
    IN  F[Len(s)]

Mean(da, over) ==
    LET dims == SelectSeq2(da.dims, Range(da.dims) \ over)
        kept == {c \in DOMAIN da.coords :
                    Range(da.coords[c].dims) \cap over = {}}
    IN  [dims   |-> dims,
         shape  |-> [k \in 1..Len(dims) |-> AxisLen(da, dims[k])],
         coords |-> [c \in kept |-> da.coords[c]]]

\* xr.Dataset(dict(wave=wave))
Dataset(name, da) ==
    [data_vars |-> (name :> Variable(da.dims, da)),
     coords    |-> da.coords]

\* the named entries of the container
Entries(ds) == DOMAIN ds.data_vars \cup DOMAIN ds.coords

\* the entry of the given name
Entry(ds, n) == IF n \in DOMAIN ds.coords THEN ds.coords[n] ELSE ds.data_vars[n]

\* restriction of a function to the keys in S
Restrict(f, S) == [k \in S |-> f[k]]

\* ds[name] = da.  A name that is a coordinate stays one; the coordinates
\* of da other than `name` are merged in (as_xarray hands over those of the
\* container itself, so there is nothing to align).
SetItem(ds, name, da) ==
    LET v     == Variable(da.dims, da)
        extra == Restrict(da.coords, (DOMAIN da.coords \ {name}) \ DOMAIN ds.coords)
    IN  IF name \in DOMAIN ds.coords
        THEN [data_vars |-> ds.data_vars,
              coords    |-> (name :> v) @@ extra @@ ds.coords]
        ELSE [data_vars |-> (name :> v) @@ ds.data_vars,
              coords    |-> extra @@ ds.coords]

\* ds.<name> as a labelled array: the variable with the coordinates of the
\* container that lie on its axes
GetArray(ds, name) ==
    LET v == Entry(ds, name)
    IN  [dims   |-> v.dims,
         shape  |-> v.shape,
         val    |-> v.val,
         coords |-> Restrict(ds.coords,
                       {c \in DOMAIN ds.coords :
                           Range(ds.coords[c].dims) \subseteq Range(v.dims)})]

\* ds.assign_coords(name=da): the variable becomes a coordinate
AssignCoords(ds, name, da) ==
    [data_vars |-> Restrict(ds.data_vars, DOMAIN ds.data_vars \ {name}),
     coords    |-> (name :> Variable(da.dims, da)) @@ ds.coords]

(***************************************************************************)
(* The files on disk.  A .mat file holds the arrays 'magnitude' and        *)
(* 'phase' with axes (cols, rows, slices, timesteps, components,           *)
(* frequencies); its kind says what the two readers make of it.            *)
(***************************************************************************)
Shapes(n, maxElems) == {s \in [1..n -> 1..MaxLen] : Size(s) <= maxElems}

\* shapes that differ from s in at most one axis
Near(s, maxElems) ==
    {t \in Shapes(Len(s), maxElems) :
        Cardinality({k \in 1..Len(s) : s[k] /= t[k]}) <= 1}

Unit(n) == [k \in 1..n |-> 1]

MatFiles ==
    UNION {{[kind |-> k, magnitude |-> m, phase |-> p] :
               k \in {"mat5", "v73"}, p \in Near(m, MaxElems)} :
           m \in Shapes(6, MaxElems)}
    \cup {[kind |-> k, magnitude |-> Unit(6), phase |-> Unit(6)] :
        k \in {"corrupt", "v73corrupt"}}

\* the arrays stored in the file, in the file's own axis order
FileMagnitude(f) ==
    [shape |-> f.magnitude, val |-> [i \in Idx(f.magnitude) |-> 1 + Lin(f.magnitude, i)]]

FilePhase(f) ==
    [shape |-> f.phase, val |-> [i \in Idx(f.phase) |-> Lin(f.phase, i)]]

\* scipy.io.loadmat(mat_file): arrays in the file's axis order; a v7.3 file
\* makes it raise NotImplementedError, an unreadable one another error
LegacyRead(f) ==
    IF f.kind = "mat5"
    THEN [ok |-> TRUE, exc |-> "none",
          data |-> [magnitude |-> FileMagnitude(f), phase |-> FilePhase(f),
                    lazy |-> FALSE]]
    ELSE IF f.kind \in {"v73", "v73corrupt"}
    THEN [ok |-> FALSE, exc |-> "NotImplementedError"]
    ELSE [ok |-> FALSE, exc |-> "OSError"]

\* h5py.File(mat_file): datasets with the axes in the reverse order
HDF5Read(f) ==
    IF f.kind = "v73"
    THEN [ok |-> TRUE, exc |-> "none",
          data |-> [magnitude |-> ReverseAxes(FileMagnitude(f)),
                    phase |-> ReverseAxes(FilePhase(f)),
                    lazy |-> TRUE]]
    ELSE [ok |-> FALSE, exc |-> "OSError"]

(***************************************************************************)
(* MatlabSample.                                                           *)
(***************************************************************************)
\* an attribute the object does not have, and Python's None
NoAttr == [kind |-> "NoAttr"]
None == [kind |-> "None"]

\* MatlabSample._load_mat_file: the result, the reader that produced it,
\* and the lines written to stderr
LoadMatFile(mat_file) ==
    LET legacy == LegacyRead(mat_file)
        hdf    == HDF5Read(mat_file)
    IN  IF legacy.ok
        THEN [ok |-> TRUE, exc |-> "none", data |-> legacy.data,
              rev_axes |-> TRUE, reader |-> "legacy", err |-> {}]
        ELSE IF legacy.exc = "NotImplementedError"
        THEN IF hdf.ok
             THEN [ok |-> TRUE, exc |-> "none", data |-> hdf.data,
                   rev_axes |-> FALSE, reader |-> "hdf5", err |-> {}]
             ELSE [ok |-> FALSE, exc |-> hdf.exc, reader |-> "hdf5", err |-> {}]
        ELSE [ok |-> FALSE, exc |-> legacy.exc, reader |-> "legacy",
              err |-> {mat_file}]

\* add_metadata with resolution[0] used for every spatial axis
AddMetadataOneResolution(s, array) ==
    LET dims   == <<"x", "y", "z", "timesteps", "component", "frequency">>
        coords == [frequency |-> ListArr(<<s.freq>>),
                   x |-> Arange(array.shape[1], s.resolution[1]),
                   y |-> Arange(array.shape[2], s.resolution[1]),
                   z |-> Arange(array.shape[3], s.resolution[1]),
                   component |-> ListArr(<<"x", "y", "z">>),
                   timesteps |-> Arange(array.shape[4], 1)]
        r      == DataArray(array, dims, coords)
    IN  IF ~r.ok THEN r
        ELSE [ok |-> TRUE, exc |-> "none",
              da |-> Transpose(r.da,
                       <<"timesteps", "frequency", "x", "y", "z", "component">>)]

\* MatlabSample.add_metadata
AddMetadata(s, array) ==
    LET dims   == <<"x", "y", "z", "timesteps", "component", "frequency">>
        coords == [frequency |-> ListArr(<<s.freq>>),
                   x |-> Arange(array.shape[1], s.resolution[1]),
                   y |-> Arange(array.shape[2], s.resolution[2]),
                   z |-> Arange(array.shape[3], s.resolution[3]),
                   component |-> ListArr(<<"x", "y", "z">>),
                   timesteps |-> Arange(array.shape[4], 1)]
    IN  IF Len(array.shape) < 4
        THEN [ok |-> FALSE, exc |-> "IndexError"]
        ELSE LET r == DataArray(array, dims, coords)
             IN  IF ~r.ok THEN r
                 ELSE [ok |-> TRUE, exc |-> "none",
                       da |-> Transpose(r.da,
                                <<"timesteps", "frequency", "x", "y", "z", "component">>)]

\* the outcome of a call: the object afterwards, the exception raised
\* ("none" when the call returns), what went to stderr
Outcome(s, exc, err) == [self |-> s, exc |-> exc, err |-> err]

\* MatlabSample.load_mat.  lazyArith: whether the datasets of the HDF5
\* reader take part in arithmetic (1j * data['phase']) like arrays; the
\* reader library decides that, so both outcomes are covered.
LoadMat(s, lazyArith) ==
    LET r == LoadMatFile(s.mat_file)
    IN  IF ~r.ok THEN Outcome(s, r.exc, r.err)
        ELSE IF r.data.lazy /\ ~lazyArith THEN Outcome(s, "TypeError", {})
        ELSE LET w == Polar(r.data.magnitude, r.data.phase)
             IN  IF ~w.ok THEN Outcome(s, w.exc, {})
                 ELSE LET m == AddMetadata(s, w.arr)
                      IN  IF ~m.ok THEN Outcome(s, m.exc, {})
                          ELSE Outcome([s EXCEPT !.arrays = Dataset("wave", m.da)],
                                       "none", {})

\* what `last` records of a call: the method, the exception it raised
\* ("none" when it returned), and for load_mat the reader _load_mat_file
\* used and the axes-order flag it returned (the empty set when it raised)
Call(op, exc, reader, rev_axes) ==
    [op |-> op, exc |-> exc, reader |-> reader, rev_axes |-> rev_axes]

Freqs == {30, 60}
Resolutions == {<<1, 1, 1>>, <<1, 2, 3>>}

\* __init__ that already creates an empty container
NewWithContainer(filepath, frequency, resolution) ==
    [mat_file         |-> filepath,
     mask_file        |-> [kind |-> "None"],
     bin_mask_file    |-> [kind |-> "None"],
     freq             |-> frequency,
     resolution       |-> resolution,
     arrays           |-> [data_vars |-> <<>>, coords |-> <<>>],
     storage_mod_file |-> [kind |-> "NoAttr"],
     loss_mod_file    |-> [kind |-> "NoAttr"],
     file_path_mask   |-> [kind |-> "NoAttr"],
     file_path_filled |-> [kind |-> "NoAttr"]]

\* MatlabSample.__init__
New(filepath, frequency, resolution) ==
    [mat_file         |-> filepath,
     mask_file        |-> None,
     bin_mask_file    |-> None,
     freq             |-> frequency,
     resolution       |-> resolution,
     arrays           |-> NoAttr,
     storage_mod_file |-> NoAttr,
     loss_mod_file    |-> NoAttr,
     file_path_mask   |-> NoAttr,
     file_path_filled |-> NoAttr]

HasArrays(s) == s.arrays /= NoAttr

InitWith(files, freqs, resolutions) ==
    /\ \E f \in files, q \in freqs, r \in resolutions : self = New(f, q, r)
    /\ last = Call("__init__", "none", "none", {})
    /\ stderr = {}
    /\ loaded = FALSE

\* a call of load_mat; `last` also notes the reader and the flag that
\* _load_mat_file returned to it
DoLoadMat ==
    \E lazyArith \in BOOLEAN :
        \E o \in {LoadMat(self, lazyArith)}, r \in {LoadMatFile(self.mat_file)} :
            /\ self' = o.self
            /\ last' = Call("load_mat", o.exc, r.reader,
                            IF r.ok THEN {r.rev_axes} ELSE {})
            /\ stderr' = stderr \cup o.err
            /\ loaded' = (loaded \/ o.exc = "none")

InitLoad == InitWith(MatFiles, Freqs, Resolutions)

NextLoad == DoLoadMat

SpecLoad == InitLoad /\ [][NextLoad]_vars

(***************************************************************************)
(* Enrichment: masks and the elastogram.                                   *)
(***************************************************************************)
\* the modulus volumes (NIfTI) and the mask files (.mat) on disk: the shape
\* of the array each holds and the value of its first element
ModFiles ==
    {[shape |-> <<1, 1, 1>>, base |-> 1],
     [shape |-> <<1, 1, 1>>, base |-> 2],
     [shape |-> <<2, 1, 1>>, base |-> 1]}

MaskFiles ==
    {[shape |-> <<1, 1, 1, 1>>, base |-> 1],
     [shape |-> <<1, 2, 1, 1>>, base |-> 1]}

\* nib.load(f).get_fdata() and scipy.io.loadmat(f)[key]: the array of the file
AuxRead(f) ==
    [shape |-> f.shape, val |-> [i \in Idx(f.shape) |-> f.base + Lin(f.shape, i)]]

\* np.expand_dims(a, axis=0)
ExpandDims0(a) ==
    [shape |-> <<1>> \o a.shape, val |-> [i \in Idx(<<1>> \o a.shape) |-> a.val[Tail(i)]]]

\* utils.as_xarray(a, like): a labelled with the axes and coordinates of
\* like, which it must match in shape
AsXarray(a, like) ==
    IF a.shape /= like.shape
    THEN [ok |-> FALSE, exc |-> "ValueError"]
    ELSE [ok |-> TRUE, exc |-> "none",
          da |-> [dims |-> like.dims, shape |-> a.shape, val |-> a.val,
                  coords |-> like.coords]]

\* create_elastogram that adds the new elastogram to the one already there
CreateElastogramAccumulate(s) ==
    IF s.arrays = [kind |-> "NoAttr"] THEN Outcome(s, "AttributeError", {})
    ELSE IF s.storage_mod_file = [kind |-> "NoAttr"]
            \/ s.loss_mod_file = [kind |-> "NoAttr"]
    THEN Outcome(s, "AttributeError", {})
    ELSE
    LET u  == Mean(GetArray(s.arrays, "wave"), {"component", "timesteps"})
        c  == Polar(AuxRead(s.storage_mod_file), AuxRead(s.loss_mod_file))
        mu == AsXarray(ExpandDims0(c.arr), u)
        old == s.arrays.data_vars["mu"]
        sum == [mu.da EXCEPT !.val = [i \in DOMAIN mu.da.val |->
                   <<old.val[i][1] + mu.da.val[i][1],
                     old.val[i][2] + mu.da.val[i][2]>>]]
    IN  IF ~c.ok THEN Outcome(s, c.exc, {})
        ELSE IF ~mu.ok THEN Outcome(s, mu.exc, {})
        ELSE Outcome([s EXCEPT !.arrays =
                         SetItem(s.arrays, "mu",
                                 IF "mu" \in DOMAIN s.arrays.data_vars
                                 THEN sum ELSE mu.da)],
                     "none", {})

\* MatlabSample.create_elastogram
CreateElastogram(s) ==
    IF ~HasArrays(s) THEN Outcome(s, "AttributeError", {})
    ELSE IF s.storage_mod_file = NoAttr \/ s.loss_mod_file = NoAttr
    THEN Outcome(s, "AttributeError", {})
    ELSE
    LET u == Mean(GetArray(s.arrays, "wave"), {"component", "timesteps"})
        c == Polar(AuxRead(s.storage_mod_file), AuxRead(s.loss_mod_file))
    IN  IF ~c.ok THEN Outcome(s, c.exc, {})
        ELSE LET mu == AsXarray(ExpandDims0(c.arr), u)
             IN  IF ~mu.ok THEN Outcome(s, mu.exc, {})
                 ELSE Outcome([s EXCEPT !.arrays = SetItem(s.arrays, "mu", mu.da)],
                              "none", {})

\* lines 68-79 of segment_regions: the mask from file
AddMask(s) ==
    LET u    == Mean(GetArray(s.arrays, "wave"), {"frequency", "component"})
        mask == AsXarray(AuxRead(s.file_path_mask), u)
        ds   == SetItem(s.arrays, "spatial_region", mask.da)
    IN  IF s.file_path_mask = NoAttr THEN Outcome(s, "AttributeError", {})
        ELSE IF ~mask.ok THEN Outcome(s, mask.exc, {})
        ELSE Outcome([s EXCEPT !.arrays =
                         AssignCoords(ds, "spatial_region",
                                      GetArray(ds, "spatial_region"))],
                     "none", {})

\* lines 81-89 of segment_regions: the binary mask
AddBinaryMask(s) ==
    LET u    == Mean(GetArray(s.arrays, "wave"), {"frequency", "component"})
        fill == AsXarray(AuxRead(s.file_path_filled), u)
        ds   == SetItem(s.arrays, "binary_region", fill.da)
    IN  IF s.file_path_filled = NoAttr THEN Outcome(s, "AttributeError", {})
        ELSE IF ~fill.ok THEN Outcome(s, fill.exc, {})
        ELSE IF "spatial_region" \notin Entries(ds)
        THEN Outcome([s EXCEPT !.arrays = ds], "AttributeError", {})
        ELSE Outcome([s EXCEPT !.arrays =
                         AssignCoords(ds, "spatial_region",
                                      GetArray(ds, "spatial_region"))],
                     "none", {})

\* MatlabSample.segment_regions
SegmentRegions(s) ==
    IF ~HasArrays(s) THEN Outcome(s, "AttributeError", {})
    ELSE LET a == IF s.mask_file /= None THEN AddMask(s)
                  ELSE Outcome(s, "none", {})
         IN  IF a.exc /= "none" THEN a
             ELSE IF a.self.bin_mask_file /= None THEN AddBinaryMask(a.self)
             ELSE a

\* MatlabSample.preprocess
Preprocess(s, storage_mod_file, loss_mod_file) ==
    LET s1 == [s EXCEPT !.storage_mod_file = storage_mod_file,
                        !.loss_mod_file = loss_mod_file]
        a  == SegmentRegions(s1)
    IN  IF a.exc /= "none" THEN a ELSE CreateElastogram(a.self)

(***************************************************************************)
(* The calls on one sample object.                                         *)
(***************************************************************************)
DoSegmentRegions ==
    \E o \in {SegmentRegions(self)} :
        /\ self' = o.self
        /\ last' = Call("segment_regions", o.exc, "none", {})
        /\ stderr' = stderr \cup o.err
        /\ UNCHANGED loaded

DoCreateElastogram ==
    \E o \in {CreateElastogram(self)} :
        /\ self' = o.self
        /\ last' = Call("create_elastogram", o.exc, "none", {})
        /\ stderr' = stderr \cup o.err
        /\ UNCHANGED loaded

DoPreprocess ==
    \E sf \in ModFiles, lf \in ModFiles :
        \E o \in {Preprocess(self, sf, lf)} :
            /\ self' = o.self
            /\ last' = Call("preprocess", o.exc, "none", {})
            /\ stderr' = stderr \cup o.err
            /\ UNCHANGED loaded

\* the caller turns a mask on: sample.mask_file = sample.file_path_mask = m
SetMask ==
    \E m \in MaskFiles :
        /\ self' = [self EXCEPT !.mask_file = m, !.file_path_mask = m]
        /\ UNCHANGED <<last, stderr, loaded>>

\* the caller turns the binary mask on
SetBinMask ==
    \E m \in MaskFiles :
        /\ self' = [self EXCEPT !.bin_mask_file = m, !.file_path_filled = m]
        /\ UNCHANGED <<last, stderr, loaded>>

LifeFiles ==
    {f \in MatFiles : f.phase = f.magnitude /\ Size(f.magnitude) <= MaxLifeElems}

Init == InitWith(LifeFiles, {30}, {<<1, 2, 3>>})

Next ==
    \/ DoLoadMat
    \/ DoSegmentRegions
    \/ DoCreateElastogram
    \/ DoPreprocess
    \/ SetMask
    \/ SetBinMask

Spec == Init /\ [][Next]_vars

(***************************************************************************)
(* Properties of load_mat, checked under SpecLoad.                         *)
(***************************************************************************)
\* the last call was a load_mat that returned
LoadSucceeded == last.op = "load_mat" /\ last.exc = "none"

\* the arrays the reader handed to load_mat
Raw == LoadMatFile(self.mat_file).data

Wave == self.arrays.data_vars["wave"]

CanonicalDims == <<"timesteps", "frequency", "x", "y", "z", "component">>

\* the element of a wave array at the labelled position: the position of an
\* index given in the file's axis order (x, y, z, timesteps, component,
\* frequency) within an array whose axes are in the canonical order
Canon(i) == <<i[4], i[6], i[1], i[2], i[3], i[5]>>

\* C1: after a successful load_mat the axes of 'wave' are (timesteps,
\* frequency, x, y, z, component) and each named axis carries the file's
\* data of that axis, whichever reader read the file.
C1_AxesCarryFileData ==
    (LoadSucceeded /\ self.mat_file.magnitude = self.mat_file.phase) =>
        LET f == PolarArr(FileMagnitude(self.mat_file), FilePhase(self.mat_file))
        IN  /\ Wave.dims = CanonicalDims
            /\ Wave.shape = Canon(f.shape)
            /\ \A i \in Idx(f.shape) : Wave.val[Canon(i)] = f.val[i]

\* C2 as stated: the stored 'wave' has the shape S of the magnitude/phase
\* pair and holds magnitude * exp(i * phase) at the same index.
C2_StoredWaveHasShapeS ==
    (LoadSucceeded /\ Raw.magnitude.shape = Raw.phase.shape) =>
        /\ Wave.shape = Raw.magnitude.shape
        /\ \A i \in Idx(Raw.magnitude.shape) :
               Wave.val[i] = Scale(Raw.magnitude.val[i], ExpI(Raw.phase.val[i]))

\* C2 amended: the stored 'wave' has the axes of S in the order
\* (timesteps, frequency, x, y, z, component), that is the shape
\* (S[4], S[6], S[1], S[2], S[3], S[5]), and its element at
\* (t, f, x, y, z, c) is magnitude * exp(i * phase) of the input elements
\* at (x, y, z, t, c, f).
C2_StoredWaveIsTransposedPolar ==
    (LoadSucceeded /\ Raw.magnitude.shape = Raw.phase.shape) =>
        /\ Wave.shape = Canon(Raw.magnitude.shape)
        /\ \A i \in Idx(Raw.magnitude.shape) :
               Wave.val[Canon(i)] =
                   Scale(Raw.magnitude.val[i], ExpI(Raw.phase.val[i]))

\* a pair of one shape with more than one timestep and a nonzero phase has
\* been loaded
C2_Witness ==
    /\ LoadSucceeded
    /\ Raw.magnitude.shape = Raw.phase.shape
    /\ Raw.magnitude.shape[4] > 1
    /\ \E j \in Idx(Wave.shape) : Wave.val[j][2] /= 0

\* C4: a read failure other than the legacy reader's v7.3 signal, a failure
\* of the HDF5 reader included, is reported on stderr with the file name
\* and re-raised, and load_mat creates no 'wave'.
C4_ReadFailureReported ==
    LET legacy == LegacyRead(self.mat_file)
        failed == \/ (~legacy.ok /\ legacy.exc /= "NotImplementedError")
                  \/ (~legacy.ok /\ legacy.exc = "NotImplementedError"
                        /\ ~HDF5Read(self.mat_file).ok)
    IN  (last.op = "load_mat" /\ failed) =>
            /\ last.exc /= "none"
            /\ self.mat_file \in stderr
            /\ ~HasArrays(self)

\* C6: the x, y, z coordinates of 'wave' are index * resolution of that
\* axis over the length of input axes 0, 1, 2; the timesteps coordinate is
\* the index and the frequency coordinate the one constructor frequency.
C6_Coordinates ==
    LoadSucceeded =>
        LET in == PolarArr(Raw.magnitude, Raw.phase).shape
            c  == self.arrays.coords
        IN  /\ \A a \in 1..3 :
                 LET name == <<"x", "y", "z">>[a]
                 IN  /\ c[name].shape = <<in[a]>>
                     /\ Wave.shape[Pos(Wave.dims, name)] = in[a]
                     /\ \A k \in 0..(in[a] - 1) :
                            c[name].val[<<k>>] = k * self.resolution[a]
            /\ c["timesteps"].shape = <<in[4]>>
            /\ \A k \in 0..(in[4] - 1) : c["timesteps"].val[<<k>>] = k
            /\ c["frequency"].shape = <<1>>
            /\ c["frequency"].val[<<0>>] = self.freq

\* a sample with two rows and a resolution that differs between the axes
C6_Witness ==
    /\ LoadSucceeded
    /\ self.resolution = <<1, 2, 3>>
    /\ self.arrays.coords["y"].shape = <<2>>

\* C7: a 'wave' is built only from a magnitude/phase pair of one shape.
C7_WaveOnlyFromEqualShapes ==
    LoadSucceeded => Raw.magnitude.shape = Raw.phase.shape

\* C9: the HDF5 reader is used exactly when the legacy reader signals
\* v7.3, the flag is true exactly for the legacy reader's data, and
\* load_mat reverses the axes of the raw arrays before labelling them
\* according to the flag: data in the file's own order (flag true) are
\* labelled as read, data in the reverse order (flag false) are reversed.
C9_FlagDecidesReversal ==
    last.op = "load_mat" =>
        LET legacy == LegacyRead(self.mat_file)
        IN  /\ (last.reader = "hdf5") <=>
                   (~legacy.ok /\ legacy.exc = "NotImplementedError")
            /\ (last.rev_axes = {TRUE}) <=> legacy.ok
            /\ (last.rev_axes = {FALSE}) <=>
                   (last.reader = "hdf5" /\ HDF5Read(self.mat_file).ok)
            /\ (LoadSucceeded /\ Raw.magnitude.shape = Raw.phase.shape) =>
                   LET raw  == PolarArr(Raw.magnitude, Raw.phase)
                       used == IF TRUE \in last.rev_axes
                               THEN raw ELSE ReverseAxes(raw)
                   IN  /\ Wave.shape = Canon(used.shape)
                       /\ \A i \in Idx(used.shape) :
                              Wave.val[Canon(i)] = used.val[i]

(***************************************************************************)
(* Properties of the calls on one sample, checked under Spec.              *)
(***************************************************************************)
EnrichOps == {"segment_regions", "create_elastogram", "preprocess"}

\* every entry of container a is an entry of container b, unchanged
Kept(a, b) ==
    \A n \in Entries(a) : n \in Entries(b) /\ Entry(b, n) = Entry(a, n)

\* C3: an enrichment call leaves 'wave', its axes and its coordinates as
\* they are; the entries afterwards are a superset of those before and
\* every entry that existed before is unchanged.
C3_EnrichmentOnlyAdds ==
    [][(last'.op \in EnrichOps /\ HasArrays(self)) =>
          /\ HasArrays(self')
          /\ self'.arrays.data_vars["wave"] = self.arrays.data_vars["wave"]
          /\ Kept(self.arrays, self'.arrays)]_vars

\* C5: on a loaded sample a second segment_regions, create_elastogram or
\* preprocess with the same files leaves the container as the first call
\* left it.
C5_EnrichmentIdempotent ==
    HasArrays(self) =>
        /\ LET a == SegmentRegions(self).self
           IN  SegmentRegions(a).self.arrays = a.arrays
        /\ LET a == CreateElastogram(self).self
           IN  CreateElastogram(a).self.arrays = a.arrays
        /\ \A sf \in ModFiles, lf \in ModFiles :
               LET a == Preprocess(self, sf, lf).self
               IN  Preprocess(a, sf, lf).self.arrays = a.arrays

\* preprocess has attached a mask and an elastogram to a loaded sample
C5_Witness ==
    /\ HasArrays(self)
    /\ last.op = "preprocess" /\ last.exc = "none"
    /\ "mu" \in DOMAIN self.arrays.data_vars
    /\ "spatial_region" \in DOMAIN self.arrays.coords

\* C8: an entry once in the container is never removed and never replaced
\* by a later call.
C8_NoUpdateNoDelete ==
    [][HasArrays(self) =>
          (HasArrays(self') /\ Kept(self.arrays, self'.arrays))]_vars

\* C10: the container exists only after a load_mat that returned, and then
\* holds 'wave'; an enrichment call before that raises and leaves the
\* sample without a container.
C10_WaveComesFirst ==
    /\ HasArrays(self) => (loaded /\ "wave" \in DOMAIN self.arrays.data_vars)
    /\ (~loaded /\ last.op \in EnrichOps) => (last.exc /= "none" /\ ~HasArrays(self))
    /\ loaded => HasArrays(self)

\* preprocess was called on a sample that was never loaded
C10_Witness ==
    /\ ~loaded
    /\ last.op = "preprocess"
    /\ self.storage_mod_file /= NoAttr

====
